---- MODULE Spec2Model ----
(***************************************************************************)
(* Model of streamlit_app.py: the ITC Sustainability Q&A page.             *)
(*                                                                         *)
(* The script is executed top to bottom on every user interaction.  One    *)
(* process hosts a sequence of such script runs; the only value that       *)
(* survives a run is the entry of st.cache_resource for load_vector_store.  *)
(* Each statement group of the script is one action, the position in the   *)
(* script is pc.  The external constructors and the QA chain are black     *)
(* boxes that either return or raise; their outcome is chosen by \E.       *)
(* Text is a sequence of character codes, so slicing is really computed.   *)
(***************************************************************************)
EXTENDS Integers, Sequences, FiniteSets, TLC

VARIABLES
    pc,            \* position of the current script run
    runs,          \* number of script runs started in this process
    secrets,       \* st.secrets as seen by the current run
    API_KEY,       \* module global API_KEY
    embeddings,    \* module global embeddings
    cache,         \* st.cache_resource entry of load_vector_store
    vector_store,  \* module global vector_store
    retriever,     \* module global retriever
    llm,           \* module global llm
    qa_chain,      \* module global qa_chain
    query,         \* module global query
    response,      \* local response of the current run
    exc,           \* the statement whose call raised in the current run
    display,       \* elements rendered in the main area by the current run
    sidebar,       \* elements rendered in the sidebar by the current run
    chromaCount,   \* number of Chroma handles constructed in this process
    qaCalls,       \* number of qa_chain calls made by the current run
    qaRaisedBefore \* qa_chain raised in an earlier run of this process

vars == <<pc, runs, secrets, API_KEY, embeddings, cache, vector_store,
          retriever, llm, qa_chain, query, response, exc, display, sidebar,
          chromaCount, qaCalls, qaRaisedBefore>>

----------------------------------------------------------------------------
(* Bounds *)

MaxRuns == 3
MaxShort == 1
MaxOver == 1
MaxSources == 2

(* Program constants *)

K == 3
LambdaMult == 1
PreviewLen == 200

----------------------------------------------------------------------------
(* Values *)

None == [none |-> TRUE]
Unbound == "<unbound>"

Min(a, b) == IF a < b THEN a ELSE b

\* st.secrets: either without the entry, or with an entry that is some string
NoSecrets == [k \in {} |-> ""]
SecretStores == {NoSecrets} \cup {[k \in {"GOOGLE_API_KEY"} |-> v] : v \in {"", "AIza"}}

\* what the user typed in the text box
Queries == {"", "Summarize"}

\* messages of the exceptions the external calls raise
Messages == {"boom"}

\* a text of n characters, character i being a letter that depends on i
Text(n) == [i \in 1..n |-> 97 + (i % 26)]
Ellipsis == <<46, 46, 46>>

ContentLens == (0..MaxShort) \cup ((PreviewLen - 1)..(PreviewLen + MaxOver))
Metadatas == {[page |-> 1], [page |-> 2]}

\* langchain Document: page_content and metadata
Documents == {[page_content |-> Text(n), metadata |-> m] : n \in ContentLens, m \in Metadatas}

RECURSIVE SeqsUpTo(_, _)
SeqsUpTo(S, n) ==
    IF n = 0 THEN {<<>>}
    ELSE LET shorter == SeqsUpTo(S, n - 1)
         IN  shorter \cup {Append(s, d) : s \in {t \in shorter : Len(t) = n - 1}, d \in S}

\* what qa_chain returns: the answer and the retrieved documents
Responses == {[result |-> a, source_documents |-> s] :
                 a \in {"A", ""}, s \in SeqsUpTo(Documents, Min(MaxSources, K))}

----------------------------------------------------------------------------
(* Display elements *)

Title == [kind |-> "title", text |-> "ITC Sustainability Q&A App"]
Markdown(t) == [kind |-> "markdown", text |-> t]
Error(t, e) == [kind |-> "error", text |-> t, detail |-> e]
Write(t) == [kind |-> "write", text |-> t]
Subheader(t) == [kind |-> "subheader", text |-> t]
Header(t) == [kind |-> "header", text |-> t]
Expander(label, children) == [kind |-> "expander", text |-> label, children |-> children]
WriteMetadata(m) == [kind |-> "write_metadata", text |-> "**Metadata**: ", metadata |-> m]
WritePreview(p) == [kind |-> "write_preview", text |-> "**Content Preview**: ", chars |-> p]
\* the host's rendering of an exception that left the script
UncaughtException(e) == [kind |-> "exception", text |-> e]

----------------------------------------------------------------------------
(* Pure parts of the result rendering *)

\* variant: the slice is forgotten
Preview_NoSlice(content) == content \o Ellipsis

\* doc.page_content[:200] followed by "..."
Preview(content) == SubSeq(content, 1, Min(Len(content), PreviewLen)) \o Ellipsis

\* with st.expander("Source Document"): the two writes
RenderDoc(doc) ==
    Expander("Source Document",
             <<WriteMetadata(doc.metadata), WritePreview(Preview(doc.page_content))>>)

\* variant: the documents are rendered last to first
RenderSources_Reversed(docs) ==
    IF docs # <<>>
    THEN [i \in 1..Len(docs) |-> RenderDoc(docs[Len(docs) + 1 - i])]
    ELSE <<Write("No source documents found.")>>

\* variant: the else branch is missing
RenderSources_NoElse(docs) == [i \in 1..Len(docs) |-> RenderDoc(docs[i])]

\* the Sources section
RenderSources(docs) ==
    IF docs # <<>>
    THEN [i \in 1..Len(docs) |-> RenderDoc(docs[i])]
    ELSE <<Write("No source documents found.")>>

\* the Answer section followed by the Sources section
RenderResponse(r) ==
    <<Subheader("Answer"), Write(r.result), Subheader("Sources")>>
        \o RenderSources(r.source_documents)

----------------------------------------------------------------------------
(* State *)

Init ==
    /\ pc = "idle"
    /\ runs = 0
    /\ secrets = NoSecrets
    /\ API_KEY = Unbound
    /\ embeddings = None
    /\ cache = None
    /\ vector_store = None
    /\ retriever = None
    /\ llm = None
    /\ qa_chain = None
    /\ query = Unbound
    /\ response = None
    /\ exc = "none"
    /\ display = <<>>
    /\ sidebar = <<>>
    /\ chromaCount = 0
    /\ qaCalls = 0
    /\ qaRaisedBefore = FALSE

\* st.stop(): the rest of the script is not executed
Stop == pc' = "stopped"

\* the user interacts (or opens the page): the script starts from the top
StartRun ==
    /\ pc \in {"idle", "done", "stopped", "crashed"}
    /\ runs < MaxRuns
    /\ runs' = runs + 1
    /\ \E s \in SecretStores : secrets' = s
    /\ API_KEY' = Unbound
    /\ embeddings' = None
    /\ vector_store' = None
    /\ retriever' = None
    /\ llm' = None
    /\ qa_chain' = None
    /\ query' = Unbound
    /\ response' = None
    /\ exc' = "none"
    /\ display' = <<Title, Markdown("Ask questions")>>
    /\ sidebar' = <<>>
    /\ qaCalls' = 0
    /\ qaRaisedBefore' = (qaRaisedBefore \/ exc = "qa_chain")
    /\ pc' = "api_key"
    /\ UNCHANGED <<cache, chromaCount>>

\* variant: the handler of KeyError reports but does not stop
LoadApiKey_NoStop ==
    /\ pc = "api_key"
    /\ IF "GOOGLE_API_KEY" \in DOMAIN secrets
       THEN /\ API_KEY' = secrets["GOOGLE_API_KEY"]
            /\ UNCHANGED <<display, exc>>
       ELSE /\ display' = Append(display, Error("Google API key not found in Streamlit secrets.", ""))
            /\ exc' = "secrets"
            /\ UNCHANGED API_KEY
    /\ pc' = "embeddings"
    /\ UNCHANGED <<runs, secrets, embeddings, cache, vector_store, retriever, llm,
                   qa_chain, query, response, sidebar, chromaCount, qaCalls,
                   qaRaisedBefore>>

\* API_KEY = st.secrets["GOOGLE_API_KEY"], except KeyError
LoadApiKey ==
    /\ pc = "api_key"
    /\ IF "GOOGLE_API_KEY" \in DOMAIN secrets
       THEN /\ API_KEY' = secrets["GOOGLE_API_KEY"]
            /\ pc' = "embeddings"
            /\ UNCHANGED <<display, exc>>
       ELSE /\ display' = Append(display, Error("Google API key not found in Streamlit secrets.", ""))
            /\ exc' = "secrets"
            /\ Stop
            /\ UNCHANGED API_KEY
    /\ UNCHANGED <<runs, secrets, embeddings, cache, vector_store, retriever, llm,
                   qa_chain, query, response, sidebar, chromaCount, qaCalls,
                   qaRaisedBefore>>

\* embeddings = GoogleGenerativeAIEmbeddings(...), except Exception
InitEmbeddings ==
    /\ pc = "embeddings"
    /\ \/ /\ embeddings' = [model |-> "models/embedding-001", google_api_key |-> API_KEY]
          /\ pc' = "vector_store"
          /\ UNCHANGED <<display, exc>>
       \/ \E e \in Messages :
          /\ display' = Append(display, Error("Failed to initialize embeddings: ", e))
          /\ exc' = "embeddings"
          /\ Stop
          /\ UNCHANGED embeddings
    /\ UNCHANGED <<runs, secrets, API_KEY, cache, vector_store, retriever, llm,
                   qa_chain, query, response, sidebar, chromaCount, qaCalls,
                   qaRaisedBefore>>

\* variant: the decorator is missing, the body runs in every script run
LoadVectorStore_NoCache ==
    /\ pc = "vector_store"
    /\ \/ /\ chromaCount' = chromaCount + 1
          /\ cache' = [persist_directory |-> "./chroma_db",
                       embedding_function |-> embeddings,
                       id |-> chromaCount + 1]
          /\ vector_store' = cache'
          /\ pc' = "retriever"
          /\ UNCHANGED <<display, exc>>
       \/ \E e \in Messages :
          /\ display' = display \o
                <<Error("Failed to load Chroma vector store: ", e),
                  Write("Ensure the 'chroma_db' directory contains all necessary files")>>
          /\ exc' = "vector_store"
          /\ Stop
          /\ UNCHANGED <<cache, chromaCount, vector_store>>
    /\ UNCHANGED <<runs, secrets, API_KEY, embeddings, retriever, llm, qa_chain,
                   query, response, sidebar, qaCalls, qaRaisedBefore>>

\* variant: the handler reports and returns None instead of stopping
LoadVectorStore_NoStop ==
    /\ pc = "vector_store"
    /\ IF cache # None
       THEN /\ vector_store' = cache
            /\ UNCHANGED <<cache, chromaCount, display, exc>>
       ELSE \/ /\ chromaCount' = chromaCount + 1
               /\ cache' = [persist_directory |-> "./chroma_db",
                            embedding_function |-> embeddings,
                            id |-> chromaCount + 1]
               /\ vector_store' = cache'
               /\ UNCHANGED <<display, exc>>
            \/ \E e \in Messages :
               /\ display' = display \o
                     <<Error("Failed to load Chroma vector store: ", e),
                       Write("Ensure the 'chroma_db' directory contains all necessary files")>>
               /\ exc' = "vector_store"
               /\ UNCHANGED <<cache, chromaCount, vector_store>>
    /\ pc' = "retriever"
    /\ UNCHANGED <<runs, secrets, API_KEY, embeddings, retriever, llm, qa_chain,
                   query, response, sidebar, qaCalls, qaRaisedBefore>>

\* vector_store = load_vector_store(), decorated with st.cache_resource:
\* the body runs only when the cache has no entry, and its return value
\* becomes the entry; an exception or st.stop() leaves the cache empty
LoadVectorStore ==
    /\ pc = "vector_store"
    /\ IF cache # None
       THEN /\ vector_store' = cache
            /\ pc' = "retriever"
            /\ UNCHANGED <<cache, chromaCount, display, exc>>
       ELSE \/ /\ chromaCount' = chromaCount + 1
               /\ cache' = [persist_directory |-> "./chroma_db",
                            embedding_function |-> embeddings,
                            id |-> chromaCount + 1]
               /\ vector_store' = cache'
               /\ pc' = "retriever"
               /\ UNCHANGED <<display, exc>>
            \/ \E e \in Messages :
               /\ display' = display \o
                     <<Error("Failed to load Chroma vector store: ", e),
                       Write("Ensure the 'chroma_db' directory contains all necessary files")>>
               /\ exc' = "vector_store"
               /\ Stop
               /\ UNCHANGED <<cache, chromaCount, vector_store>>
    /\ UNCHANGED <<runs, secrets, API_KEY, embeddings, retriever, llm, qa_chain,
                   query, response, sidebar, qaCalls, qaRaisedBefore>>

\* retriever = vector_store.as_retriever(search_type="mmr", ...)
InitRetriever ==
    /\ pc = "retriever"
    /\ retriever' = [vectorstore |-> vector_store, search_type |-> "mmr",
                     k |-> K, lambda_mult |-> LambdaMult]
    /\ pc' = "llm"
    /\ UNCHANGED <<runs, secrets, API_KEY, embeddings, cache, vector_store, llm,
                   qa_chain, query, response, exc, display, sidebar, chromaCount,
                   qaCalls, qaRaisedBefore>>

\* llm = ChatGoogleGenerativeAI(...): no try around it, so an exception
\* leaves the script and the host renders it
InitLLM ==
    /\ pc = "llm"
    /\ \/ /\ llm' = [api_key |-> API_KEY, model |-> "gemini-2.0-flash-exp"]
          /\ pc' = "qa_chain"
          /\ UNCHANGED <<display, exc>>
       \/ \E e \in Messages :
          /\ display' = Append(display, UncaughtException(e))
          /\ exc' = "llm"
          /\ pc' = "crashed"
          /\ UNCHANGED llm
    /\ UNCHANGED <<runs, secrets, API_KEY, embeddings, cache, vector_store,
                   retriever, qa_chain, query, response, sidebar, chromaCount,
                   qaCalls, qaRaisedBefore>>

\* qa_chain = RetrievalQA.from_chain_type(...)
InitQAChain ==
    /\ pc = "qa_chain"
    /\ qa_chain' = [llm |-> llm, chain_type |-> "stuff", retriever |-> retriever,
                    return_source_documents |-> TRUE]
    /\ pc' = "text_input"
    /\ UNCHANGED <<runs, secrets, API_KEY, embeddings, cache, vector_store,
                   retriever, llm, query, response, exc, display, sidebar,
                   chromaCount, qaCalls, qaRaisedBefore>>

\* query = st.text_input(...): the current content of the text box
TextInput ==
    /\ pc = "text_input"
    /\ \E q \in Queries : query' = q
    /\ display' = Append(display, [kind |-> "text_input", text |-> "Enter your question"])
    /\ pc' = "process"
    /\ UNCHANGED <<runs, secrets, API_KEY, embeddings, cache, vector_store,
                   retriever, llm, qa_chain, response, exc, sidebar, chromaCount,
                   qaCalls, qaRaisedBefore>>

\* variant: the handler of the pipeline's exception stops the script
ProcessQuery_StopOnError ==
    /\ pc = "process"
    /\ IF query # ""
       THEN /\ qaCalls' = qaCalls + 1
            /\ \/ \E r \in Responses :
                  /\ response' = r
                  /\ display' = display \o RenderResponse(r)
                  /\ pc' = "sidebar"
                  /\ UNCHANGED exc
               \/ \E e \in Messages :
                  /\ display' = display \o
                        <<Error("An error occurred while processing the query: ", e),
                          Write("Please try again or check the Chroma database and API key.")>>
                  /\ exc' = "qa_chain"
                  /\ Stop
                  /\ UNCHANGED response
       ELSE /\ pc' = "sidebar"
            /\ UNCHANGED <<qaCalls, response, display, exc>>
    /\ UNCHANGED <<runs, secrets, API_KEY, embeddings, cache, vector_store,
                   retriever, llm, qa_chain, query, sidebar, chromaCount,
                   qaRaisedBefore>>

\* variant: the test of query is missing
ProcessQuery_NoGuard ==
    /\ pc = "process"
    /\ qaCalls' = qaCalls + 1
    /\ \/ \E r \in Responses :
          /\ response' = r
          /\ display' = display \o RenderResponse(r)
          /\ UNCHANGED exc
       \/ \E e \in Messages :
          /\ display' = display \o
                <<Error("An error occurred while processing the query: ", e),
                  Write("Please try again or check the Chroma database and API key.")>>
          /\ exc' = "qa_chain"
          /\ UNCHANGED response
    /\ pc' = "sidebar"
    /\ UNCHANGED <<runs, secrets, API_KEY, embeddings, cache, vector_store,
                   retriever, llm, qa_chain, query, sidebar, chromaCount,
                   qaRaisedBefore>>

\* if query: try: response = qa_chain(...); render; except Exception: error
ProcessQuery ==
    /\ pc = "process"
    /\ IF query # ""
       THEN /\ qaCalls' = qaCalls + 1
            /\ \/ \E r \in Responses :
                  /\ response' = r
                  /\ display' = display \o RenderResponse(r)
                  /\ UNCHANGED exc
               \/ \E e \in Messages :
                  /\ display' = display \o
                        <<Error("An error occurred while processing the query: ", e),
                          Write("Please try again or check the Chroma database and API key.")>>
                  /\ exc' = "qa_chain"
                  /\ UNCHANGED response
       ELSE UNCHANGED <<qaCalls, response, display, exc>>
    /\ pc' = "sidebar"
    /\ UNCHANGED <<runs, secrets, API_KEY, embeddings, cache, vector_store,
                   retriever, llm, qa_chain, query, sidebar, chromaCount,
                   qaRaisedBefore>>

\* with st.sidebar: the About and Instructions sections
Sidebar ==
    /\ pc = "sidebar"
    /\ sidebar' = <<Header("About"), Markdown("This app is built using"),
                    Header("Instructions"), Markdown("1. Enter a question")>>
    /\ pc' = "footer"
    /\ UNCHANGED <<runs, secrets, API_KEY, embeddings, cache, vector_store,
                   retriever, llm, qa_chain, query, response, exc, display,
                   chromaCount, qaCalls, qaRaisedBefore>>

\* the footer: the last two statements of the script
Footer ==
    /\ pc = "footer"
    /\ display' = display \o <<Markdown("---"), Markdown("Built with Streamlit")>>
    /\ pc' = "done"
    /\ UNCHANGED <<runs, secrets, API_KEY, embeddings, cache, vector_store,
                   retriever, llm, qa_chain, query, response, exc, sidebar,
                   chromaCount, qaCalls, qaRaisedBefore>>

Next ==
    \/ StartRun
    \/ LoadApiKey
    \/ InitEmbeddings
    \/ LoadVectorStore
    \/ InitRetriever
    \/ InitLLM
    \/ InitQAChain
    \/ TextInput
    \/ ProcessQuery
    \/ Sidebar
    \/ Footer

Spec == Init /\ [][Next]_vars

----------------------------------------------------------------------------
(* Properties *)

\* the script run has ended and executes nothing more
Halted == pc \in {"stopped", "crashed"}

\* an st.error banner with the given text is on the page
ErrorShown(t) == \E i \in 1..Len(display) : display[i].kind = "error" /\ display[i].text = t

\* what the processing of the query rendered, in order
Body == SelectSeq(display, LAMBDA el : el.kind \notin {"title", "markdown", "text_input"})

\* the content previews on the page, in order
Previews == [i \in 1..Len(SelectSeq(display, LAMBDA el : el.kind = "expander")) |->
                SelectSeq(display, LAMBDA el : el.kind = "expander")[i].children[2].chars]

NoClientConstructed ==
    /\ embeddings = None
    /\ vector_store = None
    /\ retriever = None
    /\ llm = None
    /\ qa_chain = None

\* C1: a run that finds no GOOGLE_API_KEY in the secret store shows the
\* configuration error and stops, and constructs no client at all.
C1_MissingKeyHalts ==
    (pc \notin {"idle", "api_key"} /\ "GOOGLE_API_KEY" \notin DOMAIN secrets)
        => /\ pc = "stopped"
           /\ ErrorShown("Google API key not found in Streamlit secrets.")
           /\ NoClientConstructed
           /\ qaCalls = 0

C1_Witness == pc = "stopped" /\ exc = "secrets" /\ runs >= 2 /\ cache # None

\* C2: when the constructor of the embeddings client or of the chat model
\* raises, the run shows an error banner and ends, and the pipeline is not
\* called and nothing is answered in that run.
C2_ConstructorFailureShown ==
    exc \in {"embeddings", "llm"}
        => /\ Halted
           /\ \E i \in 1..Len(display) : display[i].kind = "error"
           /\ qaCalls = 0
           /\ response = None

\* C3: when the pipeline raises on a non-empty query, the inline error is
\* shown, the run goes on to the sidebar and the footer instead of halting,
\* and a later run with a non-empty query calls the pipeline again.
C3_PipelineFailureRecoverable ==
    /\ exc = "qa_chain"
          => /\ pc \in {"sidebar", "footer", "done"}
             /\ ErrorShown("An error occurred while processing the query: ")
             /\ (pc = "done" => sidebar # <<>> /\ display[Len(display)].kind = "markdown")
    /\ (qaRaisedBefore /\ pc \in {"sidebar", "footer", "done"} /\ query # "")
          => qaCalls = 1

C3_Witness == qaRaisedBefore /\ qaCalls = 1 /\ pc = "done" /\ response # None

\* C4: with an empty query the pipeline is not called and no answer, source
\* or error is rendered; the pipeline is called only with a non-empty query.
C4_EmptyQueryNoCall ==
    /\ query = "" => /\ qaCalls = 0
                     /\ response = None
                     /\ Body = <<>>
    /\ qaCalls > 0 => query \notin {"", Unbound}

C4_Witness == query = "" /\ pc = "done"

\* C5: the vector-store handle is constructed at most once per process;
\* once it is cached, every run that gets as far as the retriever builds it
\* on that cached handle.
C5_HandleCachedOnce ==
    /\ chromaCount <= 1
    /\ (cache = None) <=> (chromaCount = 0)
    /\ vector_store # None => vector_store = cache
    /\ retriever # None => retriever.vectorstore = cache

C5_Witness ==
    /\ runs >= 2
    /\ retriever # None
    /\ retriever.vectorstore = cache
    /\ cache.embedding_function # embeddings

\* C6: whenever the embeddings client, the vector-store handle or the chat
\* model has been constructed, API_KEY is a non-empty string.
C6_KeyNonEmpty ==
    (embeddings # None \/ vector_store # None \/ llm # None)
        => API_KEY \notin {"", Unbound}

\* C7: when the pipeline returns answer A and a non-empty list S, the page
\* shows A unchanged, then one expander per element of S in the order of S,
\* each with that chunk's metadata and a preview that begins its content,
\* and the "no sources" message is not shown.
C7_AnswerThenSources ==
    (response # None /\ response.source_documents # <<>>)
        => LET S == response.source_documents
           IN  /\ Len(Body) = 3 + Len(S)
               /\ Body[1] = [kind |-> "subheader", text |-> "Answer"]
               /\ Body[2] = [kind |-> "write", text |-> response.result]
               /\ Body[3] = [kind |-> "subheader", text |-> "Sources"]
               /\ \A i \in 1..Len(S) :
                     /\ Body[3 + i].kind = "expander"
                     /\ Len(Body[3 + i].children) = 2
                     /\ Body[3 + i].children[1].metadata = S[i].metadata
                     /\ LET p == Body[3 + i].children[2].chars
                        IN  /\ Len(p) >= 3
                            /\ Len(p) - 3 <= Len(S[i].page_content)
                            /\ SubSeq(p, 1, Len(p) - 3) = SubSeq(S[i].page_content, 1, Len(p) - 3)
               /\ \A i \in 1..Len(Body) : Body[i].text # "No source documents found."

C7_Witness ==
    /\ response # None
    /\ Len(response.source_documents) = 2
    /\ response.source_documents[1] # response.source_documents[2]
    /\ response.result = "A"
    /\ pc = "done"

\* C8: when the pipeline returns no source document, the page shows the
\* answer, then the "No source documents found." message, and no expander.
C8_NoSourcesMessage ==
    (response # None /\ response.source_documents = <<>>)
        => /\ Len(Body) = 4
           /\ Body[2] = [kind |-> "write", text |-> response.result]
           /\ Body[4] = [kind |-> "write", text |-> "No source documents found."]
           /\ \A i \in 1..Len(display) : display[i].kind # "expander"

C8_Witness == response # None /\ response.source_documents = <<>> /\ pc = "done"

\* C9: when opening the vector store raises, the run shows the error and
\* stops: no retriever, chat model or QA chain is constructed and the
\* pipeline is not called.
C9_VectorStoreFailureHalts ==
    exc = "vector_store"
        => /\ pc = "stopped"
           /\ ErrorShown("Failed to load Chroma vector store: ")
           /\ vector_store = None
           /\ retriever = None
           /\ llm = None
           /\ qa_chain = None
           /\ qaCalls = 0
           /\ response = None

C9_Witness == exc = "vector_store" /\ pc = "stopped" /\ embeddings # None

\* C10, as stated: every preview is the first 200 characters of the content
\* followed by "...", so all previews have the same length.
C10_FixedLength ==
    \A i \in 1..Len(Previews) : Len(Previews[i]) = PreviewLen + 3

\* C10, amended: the preview of a content c is its first min(len(c), 200)
\* characters followed by "..."; its length is min(len(c), 200) + 3, which
\* is 203 exactly when c has at least 200 characters.
C10_PreviewLength ==
    response # None
        => LET S == response.source_documents
           IN  /\ Len(Previews) = Len(S)
               /\ \A i \in 1..Len(S) :
                     LET c == S[i].page_content
                         p == Previews[i]
                         n == IF Len(c) < PreviewLen THEN Len(c) ELSE PreviewLen
                     IN  /\ Len(p) = n + 3
                         /\ \A j \in 1..n : p[j] = c[j]
                         /\ \A j \in (n + 1)..(n + 3) : p[j] = 46
                         /\ (Len(p) = PreviewLen + 3) <=> (Len(c) >= PreviewLen)

C10_Witness ==
    /\ response # None
    /\ Len(Previews) = 2
    /\ Len(response.source_documents[1].page_content) < PreviewLen
    /\ Len(response.source_documents[2].page_content) > PreviewLen
    /\ Len(Previews[1]) < Len(Previews[2])

====
